---- MODULE Spec2Model ----
(***************************************************************************)
(* Star-shaped-Cpp-Master: the frame decoder (ReadState::parse and its     *)
(* extract_* helpers, src/src/data_structuring.cpp) and the per-slave      *)
(* telemetry registry (StarManager, src/src/Star_Manager.cpp).             *)
(*                                                                         *)
(* A buffer is a sequence of bytes; the C++ offset o is index o + 1 here.  *)
(* A float is kept as its object representation, the four bytes memcpy     *)
(* copies, in memory order.                                                *)
(***************************************************************************)
EXTENDS Integers, Sequences, FiniteSets, TLC

VARIABLES
    slave_registry,  \* StarManager::slave_registry: a map slave id -> record
    clock,           \* what std::chrono::system_clock::now() reads, in ns
    op,              \* the last completed call, as its caller observed it
    ingested,        \* ids for which a call with a full frame has returned
    last_frame,      \* per id, the buffer of the last input_handler call that returned
    pc,              \* per thread, the position inside its call
    call,            \* per thread, the call it runs: kind, slave_id, buffer
    local,           \* per thread, the locals of its call
    written,         \* the records the calls running on threads have built, in call order
    caller           \* what the code calling the core holds: arguments, copies, readings

vars == <<slave_registry, clock, op, ingested, last_frame, pc, call, local, written,
          caller>>

-----------------------------------------------------------------------------
(* Bounds of the model *)

\* Largest clock reading of the model (readings are 1..MaxClock).
MaxClock == 2

\* Bytes a buffer may carry beyond the 21 the decoder reads.
MaxExtra == 1

-----------------------------------------------------------------------------
(* Program constants *)

\* Bytes the decoder reads: the last read is offset 17 + sizeof(float) - 1.
FRAME_SIZE == 21

UINT8_MAX == 255

\* uint8_t slave_id: the ids the model ingests, the two extremes of the type.
SlaveIds == {0, UINT8_MAX}

-----------------------------------------------------------------------------
(* Test frames, byte by byte as generate_pdo_buffer lays them out *)

\* generate_pdo_buffer(0x1234, 1000000, -50000, 100, 0x08, 0x0000, 0x00FF, 45.5f)
TestFrame ==
    << 52, 18,   64, 66, 15, 0,   176, 60, 255, 255,   100, 0,   8,
       0, 0,   255, 0,   0, 0, 54, 66 >>

\* expected_data_ of the tests' fixture: the wire fields TestFrame encodes
\* (45.5f is the bit pattern 0x42360000).
TestFields ==
    [ status_word |-> 4660, actual_position |-> 1000000, actual_velocity |-> -50000,
      actual_torque |-> 100, mode_display |-> 8, error_code |-> 0,
      system_status |-> 255, motor_temperature |-> <<0, 0, 54, 66>> ]

\* generate_pdo_buffer(0xFFFF, 0x7FFFFFFF, 0x80000000, 0x7FFF, 0xFF, 0xFFFF, 0xFFFF, 200.0f)
CorruptedFrame ==
    << 255, 255,   255, 255, 255, 127,   0, 0, 0, 128,   255, 127,   255,
       255, 255,   255, 255,   0, 0, 72, 67 >>

\* generate_pdo_buffer(0, INT32_MIN, INT32_MIN, INT16_MIN, 0, 0, 0, lowest())
MinFrame ==
    << 0, 0,   0, 0, 0, 128,   0, 0, 0, 128,   0, 128,   0,
       0, 0,   0, 0,   255, 255, 127, 255 >>

\* generate_pdo_buffer(0, 0, 0, 0, 0, 0, 0, 0.0f)
ZeroFrame == [i \in 1..FRAME_SIZE |-> 0]

\* A frame with every bit set: -1 in the signed fields, a NaN in the float.
AllOnesFrame == [i \in 1..FRAME_SIZE |-> UINT8_MAX]

\* The first n bytes of frame f, followed by 0xEE bytes when n exceeds its length.
Resize(f, n) ==
    [i \in 1..n |-> IF i <= Len(f) THEN f[i] ELSE 238]

\* Byte values found in the memory behind a vector's storage.
GarbageBytes == {0, 165}

-----------------------------------------------------------------------------
(* data_structuring.cpp: the field extraction helpers *)

\* buffer[offset] of a std::vector<uint8_t>, for an offset inside the buffer.
ByteAt(buffer, offset) == buffer[offset + 1]

\* Mutant: the two bytes combined most significant first.
extract_uint16_t_BigEndian(buffer, offset) ==
    buffer[offset + 1] * 256 + buffer[offset + 2]

\* LSB | (MSB << 8)
extract_uint16_t(buffer, offset) ==
    ByteAt(buffer, offset) + ByteAt(buffer, offset + 1) * 256

extract_uint8_t(buffer, offset) == ByteAt(buffer, offset)

\* Mutant: the top bit read as a sign over a 31-bit magnitude.
extract_int32_t_SignMagnitude(buffer, offset) ==
    LET low24 == buffer[offset + 1] + buffer[offset + 2] * 256
                 + buffer[offset + 3] * 65536
        b3    == buffer[offset + 4]
    IN  IF b3 >= 128 THEN 0 - ((b3 - 128) * 16777216 + low24)
                     ELSE b3 * 16777216 + low24

\* static_cast<int32_t> of a uint32_t: the same 32 bits read as two's complement,
\* u for u < 2^31 and u - 2^32 otherwise.  The top byte carries the sign bit, so
\* the cast is taken on it (b3 - 256 for b3 >= 128) and every intermediate value
\* stays inside 32 bits.
extract_int32_t(buffer, offset) ==
    LET low24 == ByteAt(buffer, offset)
                 + ByteAt(buffer, offset + 1) * 256
                 + ByteAt(buffer, offset + 2) * 65536
        b3    == ByteAt(buffer, offset + 3)
    IN  IF b3 >= 128 THEN (b3 - 256) * 16777216 + low24
                     ELSE b3 * 16777216 + low24

\* Mutant: the cast to int16_t left out, the value stays unsigned.
extract_int16_t_Unsigned(buffer, offset) ==
    buffer[offset + 1] + buffer[offset + 2] * 256

\* static_cast<int16_t> of a uint16_t: u for u < 2^15 and u - 2^16 otherwise.
extract_int16_t(buffer, offset) ==
    LET unsigned_value == ByteAt(buffer, offset) + ByteAt(buffer, offset + 1) * 256
    IN  IF unsigned_value >= 32768 THEN unsigned_value - 65536 ELSE unsigned_value

\* Mutant: the four bytes swapped into the opposite order before the copy.
extract_float_Swapped(buffer, offset) ==
    << buffer[offset + 4], buffer[offset + 3], buffer[offset + 2], buffer[offset + 1] >>

\* memcpy(&value, &buffer[offset], sizeof(float)): the four bytes, in memory order.
extract_float(buffer, offset) ==
    << ByteAt(buffer, offset), ByteAt(buffer, offset + 1),
       ByteAt(buffer, offset + 2), ByteAt(buffer, offset + 3) >>

-----------------------------------------------------------------------------
(* slaves_state_struct.hpp: SlaveRealTimeData *)

WireFields ==
    {"status_word", "actual_position", "actual_velocity", "actual_torque",
     "mode_display", "error_code", "system_status", "motor_temperature"}

\* The fields in declaration order, the order a member-wise copy stores them in.
FieldOrder ==
    << "status_word", "actual_position", "actual_velocity", "actual_torque",
       "mode_display", "error_code", "system_status", "motor_temperature",
       "timestamp", "slave_position", "data_valid" >>

\* A value-initialized SlaveRealTimeData, what std::map::operator[] inserts.
ZeroRecord ==
    [ status_word |-> 0, actual_position |-> 0, actual_velocity |-> 0,
      actual_torque |-> 0, mode_display |-> 0, error_code |-> 0,
      system_status |-> 0, motor_temperature |-> <<0, 0, 0, 0>>,
      timestamp |-> 0, slave_position |-> 0, data_valid |-> FALSE ]

\* The eight wire fields of a record.
Wire(r) == [f \in WireFields |-> r[f]]

-----------------------------------------------------------------------------
(* data_structuring.cpp: ReadState::parse *)

\* `SlaveRealTimeData srt;` is default-initialized: the three fields parse does
\* not assign are indeterminate; every caller in the sources overwrites them
\* before it reads them, and the model keeps them at the zero pattern.
parse(buffer) ==
    [ ZeroRecord EXCEPT
        !.status_word       = extract_uint16_t(buffer, 0),
        !.actual_position   = extract_int32_t(buffer, 2),
        !.actual_velocity   = extract_int32_t(buffer, 6),
        !.actual_torque     = extract_int16_t(buffer, 10),
        !.mode_display      = extract_uint8_t(buffer, 12),
        !.error_code        = extract_uint16_t(buffer, 13),
        !.system_status     = extract_uint16_t(buffer, 15),
        !.motor_temperature = extract_float(buffer, 17) ]

\* What the reads of parse see for a buffer shorter than FRAME_SIZE: parse makes
\* no length check, so buffer[offset] with offset >= size() is an out-of-bounds
\* read, undefined behaviour.  A build that does not trap reads whatever lies
\* behind the vector's storage: the bytes of the buffer followed by bytes g.
MemoryImage(buffer, g) ==
    [i \in 1..FRAME_SIZE |-> IF i <= Len(buffer) THEN buffer[i] ELSE g]

\* Mutant: a decoder that validates, and gives up on an error code of 0xFFFF.
parse_outcomes_Validating(buffer) ==
    IF Len(buffer) >= FRAME_SIZE /\ buffer[14] = 255 /\ buffer[15] = 255
    THEN { <<"crash", ZeroRecord>> }
    ELSE { <<"ok", parse([i \in 1..FRAME_SIZE |->
                           IF i <= Len(buffer) THEN buffer[i] ELSE 0])>> }

\* The outcomes of parser_.parse(buffer): <<"ok", record>> when parse returns,
\* <<"crash", _>> when an out-of-bounds read faults and the process dies.  parse
\* has no throw statement and no error return: it never reports an error.
parse_outcomes(buffer) ==
    IF Len(buffer) >= FRAME_SIZE
    THEN { <<"ok", parse(buffer)>> }
    ELSE { <<"ok", parse(MemoryImage(buffer, g))>> : g \in GarbageBytes }
         \cup { <<"crash", ZeroRecord>> }

-----------------------------------------------------------------------------
(* Star_Manager.cpp: StarManager, called from one thread *)

\* The buffers the transport layer hands to input_handler: two frames cut short
\* (to 3 bytes, and by one byte), two full frames, and a frame with bytes behind
\* the 21 the decoder reads.
IngestBuffers ==
    { Resize(TestFrame, 3), Resize(CorruptedFrame, FRAME_SIZE - 1),
      TestFrame, CorruptedFrame }
    \cup { Resize(MinFrame, FRAME_SIZE + n) : n \in 1..MaxExtra }

\* Readings of system_clock, nanoseconds since the epoch (the present is after it).
ClockValues == 1..MaxClock

\* An empty std::map.
EmptyMap == [k \in {} |-> ZeroRecord]

\* Mutant: std::map::insert in place of operator[]: an existing entry is kept.
MapAssign_InsertOnly(m, k, v) ==
    [x \in (DOMAIN m) \cup {k} |-> IF x \in DOMAIN m THEN m[x] ELSE v]

\* Mutant: the registry holds the record of the last slave only.
MapAssign_SingleSlot(m, k, v) == [x \in {k} |-> v]

\* m[k] = v of a std::map: inserts the key when it is absent, replaces the
\* mapped value when it is present, and touches no other key.
MapAssign(m, k, v) ==
    [x \in (DOMAIN m) \cup {k} |-> IF x = k THEN v ELSE m[x]]

\* Mutant: line 34 left out, slave_position keeps what parse left in it.
Stamp_NoPosition(result, now, slave_id) ==
    [ result EXCEPT !.timestamp = now, !.data_valid = TRUE ]

\* Lines 29-35 of input_handler: the three metadata fields written into result.
Stamp(result, now, slave_id) ==
    [ result EXCEPT !.timestamp = now,
                    !.slave_position = slave_id,
                    !.data_valid = TRUE ]

\* The record of a completed call: what was called, with what, what the caller
\* got back (ret: <<>> or <<record>>), and for input_handler the entry the call
\* found under slave_id (replaced: <<>> or <<record>>) with the buffer that
\* entry came from (prev_buffer: <<>> or <<buffer>>).
Observed(kind, slave_id, buffer, outcome, ret, replaced, prev_buffer) ==
    [ kind |-> kind, slave_id |-> slave_id, buffer |-> buffer,
      outcome |-> outcome, ret |-> ret, replaced |-> replaced,
      prev_buffer |-> prev_buffer ]

NoCall == Observed("none", 0, <<>>, "none", <<>>, <<>>, <<>>)

\* A fault in an out-of-bounds read ends the process.
Alive == op.outcome # "crash"

\* The entry under k, as a sequence of zero or one records.
Entry(m, k) == IF k \in DOMAIN m THEN << m[k] >> ELSE << >>

\* void StarManager::input_handler(uint8_t slave_id, const std::vector<uint8_t>& buffer)
input_handler(slave_id, buffer) ==
    /\ Alive
    /\ \E o \in parse_outcomes(buffer) :
         IF o[1] = "crash"
         THEN /\ op' = Observed("input_handler", slave_id, buffer, "crash", <<>>,
                                Entry(slave_registry, slave_id),
                                Entry(last_frame, slave_id))
              /\ UNCHANGED <<slave_registry, ingested, last_frame>>
         ELSE LET result == Stamp(o[2], clock, slave_id)
              IN  /\ slave_registry' = MapAssign(slave_registry, slave_id, result)
                  /\ op' = Observed("input_handler", slave_id, buffer, "returned",
                                    <<>>, Entry(slave_registry, slave_id),
                                    Entry(last_frame, slave_id))
                  /\ ingested' = IF Len(buffer) >= FRAME_SIZE
                                 THEN ingested \cup {slave_id} ELSE ingested
                  /\ last_frame' = [x \in (DOMAIN last_frame) \cup {slave_id} |->
                                     IF x = slave_id THEN buffer ELSE last_frame[x]]
    /\ UNCHANGED <<clock, pc, call, local, written, caller>>

\* Mutant: slave_registry[slave_id] in place of at(): an absent key is inserted
\* with a value-initialized record, which is returned.
getSlaveData_Index(slave_id) ==
    /\ Alive
    /\ slave_registry' =
          [x \in (DOMAIN slave_registry) \cup {slave_id} |->
              IF x \in DOMAIN slave_registry THEN slave_registry[x] ELSE ZeroRecord]
    /\ op' = Observed("getSlaveData", slave_id, <<>>, "returned",
                      << slave_registry'[slave_id] >>, <<>>, <<>>)
    /\ UNCHANGED <<clock, ingested, last_frame, pc, call, local, written, caller>>

\* Mutant: the lookup hands the record out and erases its entry.
getSlaveData_Take(slave_id) ==
    /\ Alive
    /\ op' = IF slave_id \in DOMAIN slave_registry
             THEN Observed("getSlaveData", slave_id, <<>>, "returned",
                           << slave_registry[slave_id] >>, <<>>, <<>>)
             ELSE Observed("getSlaveData", slave_id, <<>>, "out_of_range",
                           <<>>, <<>>, <<>>)
    /\ slave_registry' = [x \in (DOMAIN slave_registry) \ {slave_id} |-> slave_registry[x]]
    /\ UNCHANGED <<clock, ingested, last_frame, pc, call, local, written, caller>>

\* SlaveRealTimeData StarManager::getSlaveData(uint8_t slave_id) const
\* std::map::at throws std::out_of_range for an absent key and returns a
\* reference to the mapped value otherwise; the return copies it.
getSlaveData(slave_id) ==
    /\ Alive
    /\ op' = IF slave_id \in DOMAIN slave_registry
             THEN Observed("getSlaveData", slave_id, <<>>, "returned",
                           << slave_registry[slave_id] >>, <<>>, <<>>)
             ELSE Observed("getSlaveData", slave_id, <<>>, "out_of_range",
                           <<>>, <<>>, <<>>)
    /\ UNCHANGED <<slave_registry, clock, ingested, last_frame, pc, call, local, written, caller>>

\* system_clock moves forward as time passes ...
ClockAdvance ==
    /\ Alive
    /\ \E c \in ClockValues : c > clock /\ clock' = c
    /\ UNCHANGED <<slave_registry, op, ingested, last_frame, pc, call, local, written, caller>>

\* ... and is not steady: the wall clock can be set back (is_steady is false).
ClockSetBack ==
    /\ Alive
    /\ \E c \in ClockValues : c < clock /\ clock' = c
    /\ UNCHANGED <<slave_registry, op, ingested, last_frame, pc, call, local, written, caller>>

\* The threads that run input_handler step by step: the transport layer's
\* cyclic thread.
Threads == {"transport"}

\* Every thread that can be inside input_handler: the transport layer's cyclic
\* thread and a second one that delivers the frames of another slave.
Writers == Threads \cup {"transport2"}

\* The locals of a call: the record being built or copied out, how many of
\* its fields a member-wise copy has moved so far, and the keys operator[] saw
\* linked in the tree when it searched it.
Locals(result, copied, seen) == [result |-> result, copied |-> copied, seen |-> seen]

\* What a caller of the core holds: the arguments it hands to
\* generate_pdo_buffer (args), the record it got from getSlaveData (held: <<>>
\* or <<record>>), the clock readings it took before and after an input_handler
\* call (0: none taken) and the id it made that call for.
Caller(args, held, before, after, slave_id) ==
    [ args |-> args, held |-> held, before |-> before, after |-> after,
      slave_id |-> slave_id ]

\* A caller that holds the fixture's arguments and nothing else.
NoCaller == Caller(TestFields, <<>>, 0, 0, 0)

\* A StarManager right after construction, and no thread inside a call.
Constructed ==
    /\ slave_registry = EmptyMap
    /\ clock \in ClockValues
    /\ op = NoCall
    /\ ingested = {}
    /\ last_frame = EmptyMap
    /\ pc = [t \in Writers |-> "idle"]
    /\ call = [t \in Writers |-> NoCall]
    /\ local = [t \in Writers |-> Locals(ZeroRecord, 0, {})]
    /\ written = << >>

Init == Constructed /\ caller = NoCaller

Ingest == \E slave_id \in SlaveIds, buffer \in IngestBuffers : input_handler(slave_id, buffer)

Get == \E slave_id \in SlaveIds : getSlaveData(slave_id)

\* The buffers handed to ReadState::parse directly: every length from empty to
\* FRAME_SIZE + MaxExtra of the four test frames and of the all-ones frame.
ParseBuffers ==
    { Resize(f, n) : f \in {TestFrame, CorruptedFrame, MinFrame, ZeroFrame, AllOnesFrame},
                     n \in 0..(FRAME_SIZE + MaxExtra) }

\* A direct call of ReadState::parse(buffer), as the decoder's tests make it.
ParseCall ==
    /\ Alive
    /\ \E buffer \in ParseBuffers : \E o \in parse_outcomes(buffer) :
         op' = Observed("parse", 0, buffer,
                        IF o[1] = "ok" THEN "returned" ELSE o[1],
                        IF o[1] = "ok" THEN << o[2] >> ELSE << >>, <<>>, <<>>)
    /\ UNCHANGED <<slave_registry, clock, ingested, last_frame, pc, call, local, written, caller>>

Next == Ingest \/ Get \/ ClockAdvance \/ ClockSetBack

Spec == Init /\ [][Next]_vars

\* The decoder alone.
SpecParse == Init /\ [][ParseCall]_vars

\* input_handler for one slave, on every buffer of the decoder's inputs that has
\* the 21 bytes.
IngestDecoded ==
    \E buffer \in {b \in ParseBuffers : Len(b) >= FRAME_SIZE} :
        input_handler(UINT8_MAX, buffer)

\* The decoder called directly and through input_handler, on the same buffers.
SpecDecode == Init /\ [][ParseCall \/ IngestDecoded]_vars

-----------------------------------------------------------------------------
(* Star_Manager.hpp: what getSlaveData hands to its caller *)

\* Mutant: `const SlaveRealTimeData&` as the return type, a reference into the
\* node of the map.
ReturnValue_Reference(m, k) == [alias |-> TRUE, key |-> k, value |-> m[k]]

\* The return type is SlaveRealTimeData, not a reference: the caller's object is
\* copy-constructed from the node at() refers to, and is its own storage.
ReturnValue(m, k) == [alias |-> FALSE, key |-> k, value |-> m[k]]

\* The record a caller reads through what it was handed.
Deref(h) == IF h.alias THEN slave_registry[h.key] ELSE h.value

\* The record the caller holds, as it reads it now (<<>>: it holds none).
HeldRecord == IF caller.held = << >> THEN << >> ELSE << Deref(caller.held[1]) >>

\* A caller calls getSlaveData(slave_id) for an id the registry has and keeps
\* what the call returned.
KeepRecord(slave_id) ==
    /\ Alive
    /\ slave_id \in DOMAIN slave_registry
    /\ op' = Observed("getSlaveData", slave_id, <<>>, "returned",
                      << slave_registry[slave_id] >>, <<>>, <<>>)
    /\ caller' = [caller EXCEPT !.held = << ReturnValue(slave_registry, slave_id) >>]
    /\ UNCHANGED <<slave_registry, clock, ingested, last_frame, pc, call, local, written>>

\* The caller writes to the record it holds: it clears data_valid.
CallerWrite ==
    /\ Alive
    /\ caller.held # << >>
    /\ LET h == caller.held[1]
       IN  IF h.alias
           THEN /\ slave_registry' = [slave_registry EXCEPT ![h.key].data_valid = FALSE]
                /\ UNCHANGED caller
           ELSE /\ caller' = [caller EXCEPT !.held = << [h EXCEPT !.value.data_valid = FALSE] >>]
                /\ UNCHANGED slave_registry
    /\ UNCHANGED <<clock, op, ingested, last_frame, pc, call, local, written>>

\* input_handler on full frames, for every id.
IngestFull ==
    \E slave_id \in SlaveIds, buffer \in {TestFrame, CorruptedFrame} :
        input_handler(slave_id, buffer)

Keep == \E slave_id \in SlaveIds : KeepRecord(slave_id)

NextCaller == IngestFull \/ Keep \/ CallerWrite \/ ClockAdvance

\* A consumer that keeps and edits the records it looked up, between ingests.
SpecCaller == Init /\ [][NextCaller]_vars

-----------------------------------------------------------------------------
(* tests/test_Star_Manager.cpp, AssignsValidTimestamp: a clock reading, the    *)
(* call, a second clock reading.  The three are separate statements and the   *)
(* wall clock runs, or is set, between them.                                  *)

\* auto before = std::chrono::system_clock::now();
ReadBefore ==
    /\ Alive
    /\ caller.before = 0
    /\ caller' = [caller EXCEPT !.before = clock]
    /\ UNCHANGED <<slave_registry, clock, op, ingested, last_frame, pc, call, local, written>>

\* manager_.input_handler(slave_id, buffer), the one call the test times.
TimedIngest ==
    /\ caller.before # 0
    /\ op = NoCall
    /\ \E slave_id \in SlaveIds, buffer \in IngestBuffers : input_handler(slave_id, buffer)

\* auto after = std::chrono::system_clock::now();
ReadAfter ==
    /\ Alive
    /\ op.kind = "input_handler"
    /\ caller.after = 0
    /\ caller' = [caller EXCEPT !.after = clock, !.slave_id = op.slave_id]
    /\ UNCHANGED <<slave_registry, clock, op, ingested, last_frame, pc, call, local, written>>

NextTimed == ReadBefore \/ TimedIngest \/ ReadAfter \/ ClockAdvance \/ ClockSetBack

SpecTimed == Init /\ [][NextTimed]_vars

-----------------------------------------------------------------------------
(* tests/test_data_structuring.cpp: the encoder the tests build frames with *)

\* value & 0xFF, (value >> 8) & 0xFF: the low byte first.
append_uint16(buffer, value) ==
    buffer \o << value % 256, (value \div 256) % 256 >>

\* The same two expressions on an int16_t: value is promoted to int, & 0xFF
\* keeps the low eight bits of its two's complement pattern and >> is an
\* arithmetic shift, the floor of value / 2^8.
append_int16(buffer, value) ==
    buffer \o << value % 256, (value \div 256) % 256 >>

\* Four bytes of an int32_t, the least significant first.
append_int32(buffer, value) ==
    buffer \o << value % 256, (value \div 256) % 256,
                 (value \div 65536) % 256, (value \div 16777216) % 256 >>

\* memcpy(bytes, &value, sizeof(float)): the four bytes of the object.
append_float(buffer, value) ==
    buffer \o << value[1], value[2], value[3], value[4] >>

generate_pdo_buffer(status_word, actual_position, actual_velocity, actual_torque, mode_display, error_code, system_status, motor_temperature) ==
    LET b0 == append_uint16(<< >>, status_word)
        b1 == append_int32(b0, actual_position)
        b2 == append_int32(b1, actual_velocity)
        b3 == append_int16(b2, actual_torque)
        b4 == Append(b3, mode_display)
        b5 == append_uint16(b4, error_code)
        b6 == append_uint16(b5, system_status)
    IN  append_float(b6, motor_temperature)

\* Values of the 32-bit signed fields: the two limits of int32_t, the values of
\* the fixture, and those next to zero.
Int32Values == {-2147483647 - 1, -50000, -1, 0, 1000000, 2147483647}

\* Values of the 16-bit signed field.
Int16Values == {-32768, -1, 100, 32767}

\* Object representations of floats: 45.5f, the smallest denormal, +infinity,
\* and a NaN with every bit set.
FloatValues == { <<0, 0, 54, 66>>, <<1, 0, 0, 0>>, <<0, 0, 128, 127>>,
                 <<255, 255, 255, 255>> }

\* The arguments the tests hand to generate_pdo_buffer.
EncodeArgs ==
    [ status_word : {0, 4660, 65535}, actual_position : Int32Values,
      actual_velocity : {-2147483647 - 1, -50000, 2147483647},
      actual_torque : Int16Values, mode_display : {0, 8, UINT8_MAX},
      error_code : {0, 65535}, system_status : {255, 65535},
      motor_temperature : FloatValues ]

\* A test about to encode one set of arguments.
InitRoundTrip ==
    /\ Constructed
    /\ \E a \in EncodeArgs : caller = Caller(a, <<>>, 0, 0, 0)

\* ParsesValidPDOBuffer and its siblings: generate_pdo_buffer on the arguments,
\* then parser.parse on the buffer it returns.
RoundTrip ==
    /\ Alive
    /\ LET a == caller.args
           buffer == generate_pdo_buffer(a.status_word, a.actual_position,
                         a.actual_velocity, a.actual_torque, a.mode_display,
                         a.error_code, a.system_status, a.motor_temperature)
       IN  \E o \in parse_outcomes(buffer) :
             op' = Observed("parse", 0, buffer,
                            IF o[1] = "ok" THEN "returned" ELSE o[1],
                            IF o[1] = "ok" THEN << o[2] >> ELSE << >>, <<>>, <<>>)
    /\ UNCHANGED <<slave_registry, clock, ingested, last_frame, pc, call, local, written,
                   caller>>

\* The encoder and the decoder, one after the other.
SpecRoundTrip == InitRoundTrip /\ [][RoundTrip]_vars

-----------------------------------------------------------------------------
(* Star_Manager.cpp: input_handler on the transport thread, statement by      *)
(* statement, while a consumer thread calls getSlaveData.  StarManager holds   *)
(* no mutex and no atomic: nothing orders the reader's accesses to a node of   *)
(* slave_registry against the writer's.  The consumer's call is the one step   *)
(* getSlaveData: its own copy out of the node is member-wise as well, and the  *)
(* records it can return here are among those the code can return.             *)

\* Ingest calls the model lets the transport thread start.
MaxWrites == 2

\* The frames the transport thread ingests: full ones, so that the decoder's
\* reads are defined and the only race is the one on the registry.
ThreadFrames == {TestFrame, CorruptedFrame}

NumFields == Len(FieldOrder)

\* dst with the field at position i of the declaration order taken from src:
\* one store of the member-wise copy that SlaveRealTimeData's implicit
\* copy constructor and copy assignment perform.
CopyField(dst, src, i) == [dst EXCEPT ![FieldOrder[i]] = src[FieldOrder[i]]]

\* The transport thread enters input_handler(slave_id, buffer).
StartIngest(t, slave_id, buffer) ==
    /\ Alive
    /\ pc[t] = "idle"
    /\ Len(written) < MaxWrites
    /\ pc' = [pc EXCEPT ![t] = "build"]
    /\ call' = [call EXCEPT ![t] =
                  Observed("input_handler", slave_id, buffer, "running", <<>>, <<>>, <<>>)]
    /\ local' = [local EXCEPT ![t] = Locals(ZeroRecord, 0, {})]
    /\ UNCHANGED <<slave_registry, clock, op, ingested, last_frame, written, caller>>

\* Lines 26-35: parse into the local result and stamp it.  Only locals and the
\* clock are touched.
BuildResult(t) ==
    /\ pc[t] = "build"
    /\ LET result == Stamp(parse(call[t].buffer), clock, call[t].slave_id)
       IN  /\ local' = [local EXCEPT ![t] = Locals(result, 0, {})]
           /\ written' = Append(written, result)
    /\ pc' = [pc EXCEPT ![t] = "index"]
    /\ UNCHANGED <<slave_registry, clock, op, ingested, last_frame, call, caller>>

\* Line 37, slave_registry[slave_id]: operator[] finds the node of slave_id, or
\* inserts one holding a value-initialized record, and returns a reference.
IndexEntry(t) ==
    /\ pc[t] = "index"
    /\ slave_registry' =
          IF call[t].slave_id \in DOMAIN slave_registry
          THEN slave_registry
          ELSE MapAssign(slave_registry, call[t].slave_id, ZeroRecord)
    /\ pc' = [pc EXCEPT ![t] = "assign"]
    /\ UNCHANGED <<clock, op, ingested, last_frame, call, local, written, caller>>

\* Line 37, `= result`: the copy assignment stores result into the node, one
\* field after the other; after the last one input_handler returns.
AssignField(t) ==
    /\ pc[t] = "assign"
    /\ LET k == call[t].slave_id
           i == local[t].copied + 1
       IN  /\ slave_registry' =
                 IF k \in DOMAIN slave_registry
                 THEN [slave_registry EXCEPT ![k] = CopyField(@, local[t].result, i)]
                 ELSE slave_registry    \* the node is no longer linked in the tree
           /\ IF i < NumFields
              THEN /\ local' = [local EXCEPT ![t].copied = i]
                   /\ UNCHANGED <<pc, op, ingested, last_frame>>
              ELSE /\ local' = [local EXCEPT ![t] = Locals(ZeroRecord, 0, {})]
                   /\ pc' = [pc EXCEPT ![t] = "idle"]
                   /\ op' = Observed("input_handler", k, call[t].buffer, "returned",
                                     <<>>, <<>>, <<>>)
                   /\ ingested' = ingested \cup {k}
                   /\ last_frame' = [x \in (DOMAIN last_frame) \cup {k} |->
                                      IF x = k THEN call[t].buffer ELSE last_frame[x]]
    /\ UNCHANGED <<clock, call, written, caller>>

ThreadStart ==
    \E t \in Threads, slave_id \in SlaveIds, buffer \in ThreadFrames :
        StartIngest(t, slave_id, buffer)

ThreadStep ==
    \E t \in Threads : BuildResult(t) \/ IndexEntry(t) \/ AssignField(t)

NextThreads == ThreadStart \/ ThreadStep \/ Get \/ ClockAdvance

SpecThreads == Init /\ [][NextThreads]_vars

-----------------------------------------------------------------------------
(* Star_Manager.cpp: input_handler on two threads, for different slaves.      *)
(* slave_registry is one std::map shared by every id, and line 37 runs        *)
(* operator[] on it with no lock: the search of the tree and the linking of   *)
(* a new node are separate accesses, and two threads that insert at the same  *)
(* time race on the tree's header and child pointers (a data race, undefined  *)
(* behaviour).                                                                *)

\* A thread enters input_handler(slave_id, buffer); the transport layer has at
\* most one call per slave id in flight.
StartWriter(t, slave_id, buffer) ==
    /\ \A u \in Writers \ {t} : pc[u] = "idle" \/ call[u].slave_id # slave_id
    /\ StartIngest(t, slave_id, buffer)

\* Line 37, operator[], first half: the search (lower_bound) reads the tree and
\* finds the node of slave_id, or the place where a new node belongs.
FindEntry(t) ==
    /\ pc[t] = "index"
    /\ local' = [local EXCEPT ![t].seen = DOMAIN slave_registry]
    /\ pc' = [pc EXCEPT ![t] =
                IF call[t].slave_id \in DOMAIN slave_registry THEN "assign" ELSE "link"]
    /\ UNCHANGED <<slave_registry, clock, op, ingested, last_frame, call, written, caller>>

\* The outcomes of linking a node into a tree another thread has linked a node
\* into since this thread searched it: the stores of the two insertions land
\* on different pointers and both nodes stay ("kept"), this thread's stores
\* overwrite the other's and the other node is unreachable ("lost"), or the
\* rebalancing walks a half-linked tree and faults ("crash").
RaceOutcomes == {"kept", "lost", "crash"}

\* Line 37, operator[], second half: a node holding a value-initialized record
\* is linked at the place the search found.
LinkEntry(t) ==
    /\ pc[t] = "link"
    /\ LET k == call[t].slave_id
           raced == DOMAIN slave_registry # local[t].seen
       IN  \E o \in (IF raced THEN RaceOutcomes ELSE {"kept"}) :
             IF o = "crash"
             THEN /\ op' = Observed("input_handler", k, call[t].buffer, "crash",
                                    <<>>, <<>>, <<>>)
                  /\ UNCHANGED <<slave_registry, pc>>
             ELSE /\ slave_registry' =
                        [x \in (IF o = "lost" THEN local[t].seen
                                              ELSE DOMAIN slave_registry) \cup {k} |->
                            IF x = k THEN ZeroRecord ELSE slave_registry[x]]
                  /\ pc' = [pc EXCEPT ![t] = "assign"]
                  /\ UNCHANGED op
    /\ UNCHANGED <<clock, ingested, last_frame, call, local, written, caller>>

WriterStart ==
    \E t \in Writers, slave_id \in SlaveIds, buffer \in ThreadFrames :
        StartWriter(t, slave_id, buffer)

WriterStep ==
    \E t \in Writers :
        /\ Alive
        /\ BuildResult(t) \/ FindEntry(t) \/ LinkEntry(t) \/ AssignField(t)

NextWriters == WriterStart \/ WriterStep

SpecWriters == Init /\ [][NextWriters]_vars

-----------------------------------------------------------------------------
(* The claims *)

\* An input_handler call that came back to its caller.
IngestReturned == op.kind = "input_handler" /\ op.outcome = "returned"

\* A getSlaveData call that returned a record.
GetReturned == op.kind = "getSlaveData" /\ op.outcome = "returned"

FullFrame(buffer) == Len(buffer) >= FRAME_SIZE

\* C1: for every id and every frame f of at least 21 bytes, after
\* input_handler(id, f) returns, the record getSlaveData(id) returns has the
\* eight wire fields of the decode of f, slave_position = id, data_valid true
\* and a timestamp greater than 0.  Stated on the entry right after the call,
\* on the record a later getSlaveData hands out while f is the id's last frame,
\* and for the test frame on the field values the tests expect.
C1_StoredRecordOf(r, slave_id, buffer) ==
    /\ Wire(r) = Wire(parse(buffer))
    /\ r.slave_position = slave_id
    /\ r.data_valid = TRUE
    /\ r.timestamp > 0

C1_IngestThenGet ==
    /\ (IngestReturned /\ op.buffer = TestFrame) =>
          Wire(slave_registry[op.slave_id]) = TestFields
    /\ (IngestReturned /\ FullFrame(op.buffer)) =>
          /\ op.slave_id \in DOMAIN slave_registry
          /\ C1_StoredRecordOf(slave_registry[op.slave_id], op.slave_id, op.buffer)
    /\ (GetReturned /\ FullFrame(last_frame[op.slave_id])) =>
          /\ Len(op.ret) = 1
          /\ C1_StoredRecordOf(op.ret[1], op.slave_id, last_frame[op.slave_id])

\* C1 witness: the scenario of the spec, device 255 ingested the test frame and
\* getSlaveData(255) returned status 0x1234, position 1000000, velocity -50000.
C1_Witness ==
    /\ GetReturned
    /\ op.slave_id = UINT8_MAX
    /\ last_frame[op.slave_id] = TestFrame
    /\ op.ret[1].status_word = 4660
    /\ op.ret[1].actual_position = 1000000
    /\ op.ret[1].actual_velocity = -50000
    /\ op.ret[1].motor_temperature = <<0, 0, 54, 66>>
    /\ op.ret[1].slave_position = UINT8_MAX
    /\ op.ret[1].data_valid
    /\ op.ret[1].timestamp > 0

\* C2: decoding any buffer of 0 to 20 bytes fails with InsufficientData, before
\* any field is extracted, and no record is returned.
C2_ShortBufferIsRejected ==
    (op.kind = "parse" /\ ~FullFrame(op.buffer)) =>
        /\ op.outcome = "InsufficientData"
        /\ op.ret = << >>

\* C3: an input_handler call with a buffer shorter than 21 bytes leaves the
\* registry as it was: no entry is created, an existing entry is unchanged.
C3_ShortIngestLeavesRegistry ==
    (op.kind = "input_handler" /\ ~FullFrame(op.buffer)) =>
        Entry(slave_registry, op.slave_id) = op.replaced

\* C4: an input_handler call with a buffer shorter than 21 bytes reports
\* InsufficientData to its caller, an outcome unlike that of a successful ingest.
C4_ShortIngestIsReported ==
    (op.kind = "input_handler" /\ ~FullFrame(op.buffer)) =>
        op.outcome = "InsufficientData"

\* C5: getSlaveData(id) fails with out_of_range if and only if no ingest of a
\* full frame for id has ever succeeded, and then hands no record to the caller.
C5_NotFoundIffNeverIngested ==
    (op.kind = "getSlaveData") =>
        /\ (op.outcome = "out_of_range") <=> (op.slave_id \notin ingested)
        /\ (op.outcome = "out_of_range") => op.ret = << >>

\* C6: after successful ingests for one id, the entry holds the wire fields of
\* the last ingested frame only, and that entry is what getSlaveData returns: a
\* call that finds an entry replaces every field of it, as if none had been there.
C6_LastFrameOnly ==
    /\ \A k \in DOMAIN slave_registry :
          FullFrame(last_frame[k]) =>
              Wire(slave_registry[k]) = Wire(parse(last_frame[k]))
    /\ (IngestReturned /\ FullFrame(op.buffer)) =>
          \E now \in ClockValues :
              slave_registry[op.slave_id] = Stamp(parse(op.buffer), now, op.slave_id)
    /\ GetReturned => op.ret = << slave_registry[op.slave_id] >>

\* C6 witness: a full frame replaced the entry of another full frame, and every
\* wire field of the old entry differed from the new frame's.
C6_Witness ==
    /\ IngestReturned /\ FullFrame(op.buffer)
    /\ Len(op.replaced) = 1 /\ Len(op.prev_buffer) = 1
    /\ FullFrame(op.prev_buffer[1])
    /\ \A f \in WireFields : op.replaced[1][f] # slave_registry[op.slave_id][f]

\* C7: input_handler(id, f) changes only the entry keyed by id; the registry
\* holds one entry per id ingested, each with the fields of its own frame.
C7_OthersUntouched ==
    \A k \in SlaveIds :
        (op'.kind = "input_handler" /\ k # op'.slave_id) =>
            Entry(slave_registry', k) = Entry(slave_registry, k)

C7_OneEntryPerId ==
    /\ DOMAIN slave_registry = DOMAIN last_frame
    /\ \A k \in DOMAIN slave_registry :
          FullFrame(last_frame[k]) =>
              Wire(slave_registry[k]) = Wire(parse(last_frame[k]))

C7_Isolation == [][C7_OthersUntouched]_vars /\ []C7_OneEntryPerId

\* C7 witness: two ids hold the fields of two different frames, the second
\* ingested while the first was stored.
C7_Witness ==
    /\ IngestReturned
    /\ DOMAIN slave_registry = SlaveIds
    /\ last_frame[0] = TestFrame /\ last_frame[UINT8_MAX] = CorruptedFrame
    /\ slave_registry[0].status_word = 4660
    /\ slave_registry[UINT8_MAX].status_word = 65535

\* C8: in every reachable state, the slave_position of the record stored under
\* key k equals k.
C8_PositionIsKey ==
    \A k \in DOMAIN slave_registry : slave_registry[k].slave_position = k

\* C8 witness: entries under both extremes of the id type, 0 and 255.
C8_Witness ==
    /\ 0 \in DOMAIN slave_registry
    /\ UINT8_MAX \in DOMAIN slave_registry
    /\ slave_registry[UINT8_MAX].slave_position = UINT8_MAX

\* C9: a getSlaveData(id) that runs while input_handler(id, f) runs on another
\* thread returns the complete record of one ingest, the previous one or the
\* new one: never a partly written record or a mix of two records' fields.
C9_ReaderSeesWholeRecord ==
    GetReturned => \E i \in 1..Len(written) : op.ret[1] = written[i]

\* C10: for two sequential successful ingests for one id, the timestamp stored
\* by the second is not smaller than the timestamp stored by the first.
C10_TimestampNeverDecreases ==
    ( /\ IngestReturned /\ FullFrame(op.buffer)
      /\ Len(op.replaced) = 1 /\ Len(op.prev_buffer) = 1
      /\ FullFrame(op.prev_buffer[1]) ) =>
        slave_registry[op.slave_id].timestamp >= op.replaced[1].timestamp

\* A direct call of ReadState::parse that came back with a record.
ParseReturned == op.kind = "parse" /\ op.outcome = "returned"

\* C11: encoding the eight wire fields with generate_pdo_buffer and decoding
\* the buffer with ReadState::parse gives back every field exactly: the buffer
\* has 21 bytes, the decode returns, the integers are equal and the float has
\* the same four bytes.
C11_RoundTrip ==
    op.kind = "parse" =>
        /\ Len(op.buffer) = FRAME_SIZE
        /\ op.outcome = "returned"
        /\ Wire(op.ret[1]) = caller.args

C11_Witness ==
    /\ ParseReturned
    /\ caller.args.actual_position = -2147483647 - 1
    /\ caller.args.actual_velocity = -50000
    /\ caller.args.actual_torque = -1
    /\ caller.args.status_word = 65535
    /\ caller.args.motor_temperature = <<255, 255, 255, 255>>
    /\ op.ret[1].actual_torque = -1
    /\ op.buffer[3] = 0 /\ op.buffer[6] = 128

\* The value of a width-32 two's complement pattern given by its four bytes at
\* offset, least significant first: u when the top bit is clear, u - 2^32 when
\* it is set (taken as (u - 2^31) - 2^30 - 2^30).
TwosComplement32(buffer, offset) ==
    LET low31 == buffer[offset + 1] + buffer[offset + 2] * 256
                 + buffer[offset + 3] * 65536
                 + (buffer[offset + 4] % 128) * 16777216
    IN  IF buffer[offset + 4] < 128 THEN low31
        ELSE (low31 - 1073741824) - 1073741824

\* The same for width 16.
TwosComplement16(buffer, offset) ==
    LET u == buffer[offset + 1] + buffer[offset + 2] * 256
    IN  IF u < 32768 THEN u ELSE u - 65536

\* C12: the signed fields are decoded by two's complement reinterpretation of
\* their little-endian patterns: a 32-bit pattern u at offsets 2 and 6 (16-bit
\* at offset 10) decodes to u when its top bit is clear and to u - 2^width when
\* it is set; the bytes 00 00 00 80 at offsets 2..5 give -2147483648.
C12_SignedFields ==
    (ParseReturned /\ FullFrame(op.buffer)) =>
        /\ op.ret[1].actual_position = TwosComplement32(op.buffer, 2)
        /\ op.ret[1].actual_velocity = TwosComplement32(op.buffer, 6)
        /\ op.ret[1].actual_torque = TwosComplement16(op.buffer, 10)
        /\ (SubSeq(op.buffer, 3, 6) = <<0, 0, 0, 128>>
              => op.ret[1].actual_position = -2147483647 - 1)

C12_Witness ==
    /\ ParseReturned
    /\ op.buffer = MinFrame
    /\ op.ret[1].actual_position = -2147483647 - 1
    /\ op.ret[1].actual_torque = -32768

\* No step takes an id out of the registry.
C13_NoEntryRemoved == DOMAIN slave_registry \subseteq DOMAIN slave_registry'

\* A lookup of an id the registry holds returns a record.
C13_KnownIsFound ==
    (op.kind = "getSlaveData" /\ op.slave_id \in DOMAIN slave_registry)
        => (op.outcome = "returned" /\ Len(op.ret) = 1)

\* C13: per id the state only moves from Unknown to Known: no operation removes
\* an entry, whatever ingests for whatever ids follow, and a getSlaveData of an
\* id that has an entry succeeds; so once a lookup of an id has succeeded,
\* every later lookup of it succeeds.
C13_KnownStaysKnown == [][C13_NoEntryRemoved]_vars /\ []C13_KnownIsFound

\* A lookup of id 0 succeeds after a short ingest for the other id went through.
C13_Witness ==
    /\ GetReturned
    /\ op.slave_id = 0
    /\ 0 \in ingested
    /\ UINT8_MAX \in DOMAIN last_frame
    /\ ~FullFrame(last_frame[UINT8_MAX])
    /\ FullFrame(last_frame[0])

\* C14: decoding never fails for a buffer of at least 21 bytes, whatever its
\* bytes: a direct parse returns a record, the decode of the first 21 bytes
\* (for the corrupted frame of the tests the values they expect), and
\* input_handler on such a buffer returns and has stored that record.
C14_FullFrameAlwaysDecodes ==
    (op.kind \in {"parse", "input_handler"} /\ FullFrame(op.buffer)) =>
        /\ op.outcome = "returned"
        /\ op.kind = "parse" =>
              /\ Len(op.ret) = 1
              /\ op.ret[1] = parse(SubSeq(op.buffer, 1, FRAME_SIZE))
              /\ (SubSeq(op.buffer, 1, FRAME_SIZE) = CorruptedFrame =>
                    /\ op.ret[1].status_word = 65535
                    /\ op.ret[1].actual_position = 2147483647
                    /\ op.ret[1].mode_display = 255
                    /\ op.ret[1].error_code = 65535)
        /\ op.kind = "input_handler" =>
              /\ op.slave_id \in DOMAIN slave_registry
              /\ Wire(slave_registry[op.slave_id])
                   = Wire(parse(SubSeq(op.buffer, 1, FRAME_SIZE)))
              /\ slave_registry[op.slave_id].data_valid

\* The all-ones frame (a NaN in the float, 0xFFFF in every word) has been
\* ingested and is in the registry.
C14_Witness ==
    /\ IngestReturned
    /\ op.buffer = AllOnesFrame
    /\ slave_registry[op.slave_id].status_word = 65535
    /\ slave_registry[op.slave_id].motor_temperature = <<255, 255, 255, 255>>

\* While the caller leaves the record it holds alone, no field of it changes.
C15_HeldRecordIsStable == (caller'.held = caller.held) => (HeldRecord' = HeldRecord)

\* Only an input_handler call changes the registry.
C15_OnlyIngestWrites ==
    (slave_registry' # slave_registry) => (op'.kind = "input_handler" /\ caller' = caller)

\* C15: the record getSlaveData returns is a copy, not an alias of the
\* registry's entry: a later input_handler for the same id changes no field of
\* a record obtained earlier, and what the caller writes to its record changes
\* nothing in the registry, so nothing later lookups return.
C15_ReturnedRecordIsACopy ==
    [][C15_HeldRecordIsStable /\ C15_OnlyIngestWrites]_vars

\* The caller holds the record of the test frame for id 0, with data_valid
\* cleared by itself, while the registry has moved on to the corrupted frame
\* and still says data_valid.
C15_Witness ==
    /\ caller.held # << >>
    /\ caller.held[1].key = 0
    /\ Wire(HeldRecord[1]) = TestFields
    /\ ~HeldRecord[1].data_valid
    /\ 0 \in DOMAIN slave_registry
    /\ Wire(slave_registry[0]) = Wire(parse(CorruptedFrame))
    /\ slave_registry[0].data_valid

\* C16: for different ids, every interleaving of two input_handler calls on two
\* threads ends in the registry the two calls leave when they run one after
\* the other (timestamps apart): when no call is running, every id whose call
\* has returned has an entry, and it is the record of that id's last frame.
C16_ConcurrentIngestsCommute ==
    (\A t \in Writers : pc[t] = "idle") =>
        \A k \in DOMAIN last_frame :
            /\ k \in DOMAIN slave_registry
            /\ Wire(slave_registry[k]) = Wire(parse(last_frame[k]))
            /\ slave_registry[k].slave_position = k
            /\ slave_registry[k].data_valid

\* The 32-bit pattern of a float on the little-endian hosts the master runs on
\* (x86-64, ARM): object byte 0 is the least significant.  The pattern is
\* given as its two 16-bit halves, so that every value stays below 2^31.
FloatBitsLow16(value) == value[1] + value[2] * 256

FloatBitsHigh16(value) == value[3] + value[4] * 256

\* C17: the decoded motor_temperature has the bit pattern
\* b17 + 2^8 b18 + 2^16 b19 + 2^24 b20 of the four bytes at offsets 17..20, for
\* every pattern (NaN, infinities and denormals included): the bytes are taken
\* over as they are, with no numeric conversion and no normalisation.
C17_FloatBitPattern ==
    (ParseReturned /\ FullFrame(op.buffer)) =>
        /\ FloatBitsLow16(op.ret[1].motor_temperature) = op.buffer[18] + op.buffer[19] * 256
        /\ FloatBitsHigh16(op.ret[1].motor_temperature) = op.buffer[20] + op.buffer[21] * 256
        /\ \A i \in 1..4 : op.ret[1].motor_temperature[i] \in 0..255
        /\ (SubSeq(op.buffer, 1, FRAME_SIZE) = TestFrame =>
              /\ FloatBitsHigh16(op.ret[1].motor_temperature) = 16950
              /\ FloatBitsLow16(op.ret[1].motor_temperature) = 0)

\* The all-ones frame decoded: the float is the NaN pattern 0xFFFFFFFF.
C17_Witness ==
    /\ ParseReturned
    /\ op.buffer = AllOnesFrame
    /\ FloatBitsHigh16(op.ret[1].motor_temperature) = 65535
    /\ FloatBitsLow16(op.ret[1].motor_temperature) = 65535

\* The timestamp an input_handler step stores is the clock's reading at that
\* step, whatever the frame.
C18_StampIsTheReading ==
    (op' # op /\ op'.kind = "input_handler" /\ op'.outcome = "returned")
        => slave_registry'[op'.slave_id].timestamp = clock

\* The stored timestamp lies between the readings taken around the call.
C18_BetweenReadings ==
    caller.after # 0 =>
        /\ slave_registry[caller.slave_id].timestamp >= caller.before
        /\ slave_registry[caller.slave_id].timestamp <= caller.after

\* C18: the timestamp input_handler stores is a clock reading taken during the
\* call: it does not depend on any byte of the frame, it is not less than a
\* reading taken just before the call and not greater than one taken just
\* after the call returns.
C18_TimestampWithinCall == [][C18_StampIsTheReading]_vars /\ []C18_BetweenReadings

\* A step that ends in a completed getSlaveData leaves the registry as it was.
C19_LookupKeepsRegistry ==
    (op'.kind = "getSlaveData") => (slave_registry' = slave_registry)

\* After a lookup, failed or not, the registry has the id exactly when the
\* lookup returned a record, and that record is the entry.
C19_LookupCreatesNothing ==
    (op.kind = "getSlaveData") =>
        /\ (op.outcome = "out_of_range") <=> (op.slave_id \notin DOMAIN slave_registry)
        /\ (op.outcome = "returned") => (op.ret = << slave_registry[op.slave_id] >>)

\* C19: getSlaveData never modifies the registry: whether it returns a record
\* or fails with out_of_range, the keys and every stored record are the same
\* after the call as before; a failed lookup of an unknown id creates no
\* entry, so the same lookup fails again.
C19_LookupIsReadOnly == [][C19_LookupKeepsRegistry]_vars /\ []C19_LookupCreatesNothing

\* A lookup of id 0 has failed while the registry holds the other id only.
C19_Witness ==
    /\ op.kind = "getSlaveData"
    /\ op.outcome = "out_of_range"
    /\ op.slave_id = 0
    /\ DOMAIN slave_registry = {UINT8_MAX}

====
